---- MODULE Spec2Model ----
(***************************************************************************)
(* create_sankey of sankey_app.py: the tier assignment (recursive          *)
(* assign_tier from every root), the node positions, the aggregated node   *)
(* values and the node labels.                                             *)
(*                                                                         *)
(* The data frame is held as its three columns.  The source and target    *)
(* columns are fixed by Init.  The value column and the display options    *)
(* are first read at lines 109-116, after the layout; nothing before that  *)
(* depends on them, so they are drawn when the label stage reads them.     *)
(* Floats (x, y, percentages) are exact fractions <<numerator,             *)
(* denominator>>.                                                          *)
(***************************************************************************)
EXTENDS Integers, Sequences, FiniteSets

\* ---- bounds ----
MaxNodes == 4
MaxEdges == 3
MaxValue == 1
\* depth at which the interpreter refuses a further assign_tier call
RecursionLimit == 7

Nodes == 1..MaxNodes
Values == 0..MaxValue

\* the unset tier of line 78
None == -1

\* st.selectbox("Round to nearest", ...) options used here
RoundFactors == {10, 1}

VARIABLES source, target, value, display_mode, round_factor,
          labels, tiers, roots, rootIdx, stack, max_tier,
          x, y, tier0_sum, val, val_text, pc, outcome

vars == <<source, target, value, display_mode, round_factor,
          labels, tiers, roots, rootIdx, stack, max_tier,
          x, y, tier0_sum, val, val_text, pc, outcome>>

\* ---- helpers on sequences ----
Range(s) == {s[i] : i \in DOMAIN s}

RECURSIVE SeqSum(_)
SeqSum(s) == IF s = <<>> THEN 0 ELSE Head(s) + SeqSum(Tail(s))

RECURSIVE Unique(_, _)
\* pd.unique: distinct elements in order of first appearance
Unique(s, seen) ==
    IF s = <<>> THEN <<>>
    ELSE IF Head(s) \in seen THEN Unique(Tail(s), seen)
         ELSE <<Head(s)>> \o Unique(Tail(s), seen \cup {Head(s)})

\* df[["source","target"]].values.ravel(): s1, t1, s2, t2, ...
Ravel == [k \in 1..(2 * Len(source)) |->
            IF k % 2 = 1 THEN source[(k + 1) \div 2] ELSE target[k \div 2]]

Labels == Unique(Ravel, {})

RECURSIVE RowsWhere(_, _, _)
\* the rows i..len of column col whose entry is lbl, in row order
RowsWhere(col, lbl, i) ==
    IF i > Len(col) THEN <<>>
    ELSE IF col[i] = lbl THEN <<i>> \o RowsWhere(col, lbl, i + 1)
         ELSE RowsWhere(col, lbl, i + 1)

\* df[df['source']==lbl]['target']
Children(lbl) ==
    LET rows == RowsWhere(source, lbl, 1)
    IN  [k \in DOMAIN rows |-> target[rows[k]]]

\* a faulty Roots: the filter tests the source column
RootsNotInSource == SelectSeq(Labels, LAMBDA lbl : lbl \notin Range(source))

\* [lbl for lbl in labels if lbl not in df['target'].values]
Roots == SelectSeq(Labels, LAMBDA lbl : lbl \notin Range(target))

\* ---- initial state: the call create_sankey(df, ...) ----
\* Node labels are opaque: the code only tests them for equality and keeps
\* their order of first appearance.  Every edge list is therefore taken with
\* its labels named 1, 2, ... in that order (one list per renaming class).
Init ==
    /\ \E n \in 0..MaxEdges :
          /\ source \in [1..n -> Nodes]
          /\ target \in [1..n -> Nodes]
    /\ Labels = [i \in 1..Len(Labels) |-> i]
    /\ value = <<>>
    /\ display_mode = "unread"
    /\ round_factor = 0
    /\ labels = <<>>
    /\ tiers = <<>>
    /\ roots = <<>>
    /\ rootIdx = 1
    /\ stack = <<>>
    /\ max_tier = None
    /\ x = <<>>
    /\ y = <<>>
    /\ tier0_sum = 0
    /\ val = <<>>
    /\ val_text = <<>>
    /\ pc = "start"
    /\ outcome = "running"

\* lines 71-72: an empty frame returns None
ReturnNone ==
    /\ pc = "start"
    /\ Len(source) = 0
    /\ pc' = "done"
    /\ outcome' = "None"
    /\ UNCHANGED <<source, target, value, display_mode, round_factor,
                   labels, tiers, roots, rootIdx, stack, max_tier,
                   x, y, tier0_sum, val, val_text>>

\* lines 74-84: labels, unset tiers, roots
BuildGraph ==
    /\ pc = "start"
    /\ Len(source) > 0
    /\ labels' = Labels
    /\ tiers' = [lbl \in Range(Labels) |-> None]
    /\ roots' = Roots
    /\ rootIdx' = 1
    /\ pc' = "roots"
    /\ UNCHANGED <<source, target, value, display_mode, round_factor,
                   stack, max_tier, x, y, tier0_sum, val, val_text, outcome>>

\* faulty guards: first visit wins; the smaller tier wins; any other tier wins
TierGuardFirstVisit(lbl, current_tier) == tiers[lbl] = None

TierGuardLess(lbl, current_tier) ==
    tiers[lbl] = None \/ current_tier < tiers[lbl]

TierGuardDiffers(lbl, current_tier) ==
    tiers[lbl] = None \/ current_tier # tiers[lbl]

\* line 80: the guard of assign_tier
TierGuard(lbl, current_tier) ==
    tiers[lbl] = None \/ current_tier > tiers[lbl]

\* one call assign_tier(lbl, current_tier) made with the frames in stk live:
\* the guard fails and the call returns, or the tier is set (line 81) and the
\* call's frame starts its loop over the children (line 82)
AssignTier(lbl, current_tier, stk) ==
    IF TierGuard(lbl, current_tier)
    THEN /\ tiers' = [tiers EXCEPT ![lbl] = current_tier]
         /\ stack' = Append(stk, [lbl |-> lbl, tier |-> current_tier, next |-> 1])
    ELSE /\ tiers' = tiers
         /\ stack' = stk

\* lines 85-86: for root in roots: assign_tier(root, 0)
CallRoot ==
    /\ pc = "roots"
    /\ stack = <<>>
    /\ rootIdx <= Len(roots)
    /\ AssignTier(roots[rootIdx], 0, stack)
    /\ rootIdx' = rootIdx + 1
    /\ UNCHANGED <<source, target, value, display_mode, round_factor,
                   labels, roots, max_tier, x, y, tier0_sum, val, val_text,
                   pc, outcome>>

\* lines 82-83: the running call recurses into its next child
CallChild ==
    /\ pc = "roots"
    /\ stack # <<>>
    /\ Len(stack) < RecursionLimit
    /\ LET top == stack[Len(stack)]
           kids == Children(top.lbl)
       IN  /\ top.next <= Len(kids)
           /\ AssignTier(kids[top.next], top.tier + 1,
                         [stack EXCEPT ![Len(stack)].next = top.next + 1])
    /\ UNCHANGED <<source, target, value, display_mode, round_factor,
                   labels, roots, rootIdx, max_tier, x, y, tier0_sum, val,
                   val_text, pc, outcome>>

\* line 83 at the interpreter's recursion limit: the call raises
\* RecursionError, which nothing catches
RaiseRecursionError ==
    /\ pc = "roots"
    /\ stack # <<>>
    /\ Len(stack) >= RecursionLimit
    /\ LET top == stack[Len(stack)]
       IN  top.next <= Len(Children(top.lbl))
    /\ pc' = "done"
    /\ outcome' = "RecursionError"
    /\ UNCHANGED <<source, target, value, display_mode, round_factor,
                   labels, tiers, roots, rootIdx, stack, max_tier,
                   x, y, tier0_sum, val, val_text>>

\* end of the loop of line 82: the running call returns
Return ==
    /\ pc = "roots"
    /\ stack # <<>>
    /\ LET top == stack[Len(stack)]
       IN  top.next > Len(Children(top.lbl))
    /\ stack' = SubSeq(stack, 1, Len(stack) - 1)
    /\ UNCHANGED <<source, target, value, display_mode, round_factor,
                   labels, tiers, roots, rootIdx, max_tier,
                   x, y, tier0_sum, val, val_text, pc, outcome>>

RECURSIVE SeqMax(_)
SeqMax(s) == IF Len(s) = 1 THEN s[1]
             ELSE LET m == SeqMax(Tail(s)) IN IF Head(s) > m THEN Head(s) ELSE m

\* a faulty ComputeMaxTier: the maximum skips unset tiers
ComputeMaxTierSkipNone ==
    /\ pc = "roots"
    /\ stack = <<>>
    /\ rootIdx > Len(roots)
    /\ pc' = "layout"
    /\ max_tier' = SeqMax([i \in DOMAIN labels |->
                     IF tiers[labels[i]] = None THEN 0 ELSE tiers[labels[i]]])
    /\ UNCHANGED <<source, target, value, display_mode, round_factor,
                   labels, tiers, roots, rootIdx, stack,
                   x, y, tier0_sum, val, val_text, outcome>>

\* line 87: max(tiers.values()).  With two or more values max compares them,
\* and comparing with an unset tier raises TypeError; a single value is
\* returned uncompared
ComputeMaxTier ==
    /\ pc = "roots"
    /\ stack = <<>>
    /\ rootIdx > Len(roots)
    /\ IF Len(labels) >= 2 /\ \E lbl \in DOMAIN tiers : tiers[lbl] = None
       THEN /\ pc' = "done"
            /\ outcome' = "TypeError"
            /\ max_tier' = max_tier
       ELSE /\ pc' = "layout"
            /\ outcome' = outcome
            /\ max_tier' = SeqMax([i \in DOMAIN labels |-> tiers[labels[i]]])
    /\ UNCHANGED <<source, target, value, display_mode, round_factor,
                   labels, tiers, roots, rootIdx, stack,
                   x, y, tier0_sum, val, val_text>>

\* lines 92-93: tier_groups[tier], the label indices of the tier in label order
TierGroup(tier) ==
    SelectSeq([i \in DOMAIN labels |-> i], LAMBDA i : tiers[labels[i]] = tier)

\* a faulty position: the label index instead of enumerate's j
PosInLabels(group, idx) == idx - 1

\* position of label index idx in its group (enumerate's j, from 0)
PosInGroup(group, idx) == (CHOOSE k \in DOMAIN group : group[k] = idx) - 1

\* line 90
XOf(lbl) == IF max_tier > 0 THEN <<tiers[lbl], max_tier>> ELSE <<1, 2>>

\* lines 95-105 as an exact fraction.  With h = 1/(max_tier+1):
\*   tier_top = 1 - tier*h, tier_bottom = 1 - (tier+1)*h,
\*   count = 1: (tier_top + tier_bottom)/2
\*   count > 1: margin = h/20, step = (h - 2*margin)/(count-1),
\*              y = tier_bottom + margin + j*step
YOf(idx) ==
    LET tier == tiers[labels[idx]]
        indices == TierGroup(tier)
        count == Len(indices)
        j == PosInGroup(indices, idx)
    IN  IF count = 1
        THEN <<2 * (max_tier + 1) - 2 * tier - 1, 2 * (max_tier + 1)>>
        ELSE <<20 * (max_tier - tier) * (count - 1) + (count - 1) + 18 * j,
               20 * (max_tier + 1) * (count - 1)>>

\* lines 90-105: node positions.  `max_tier > 0` with max_tier None raises
\* TypeError
Layout ==
    /\ pc = "layout"
    /\ IF max_tier = None
       THEN /\ pc' = "done"
            /\ outcome' = "TypeError"
            /\ UNCHANGED <<x, y>>
       ELSE /\ pc' = "labels"
            /\ outcome' = outcome
            /\ x' = [i \in DOMAIN labels |-> XOf(labels[i])]
            /\ y' = [i \in DOMAIN labels |-> YOf(i)]
    /\ UNCHANGED <<source, target, value, display_mode, round_factor,
                   labels, tiers, roots, rootIdx, stack, max_tier,
                   tier0_sum, val, val_text>>

\* df[df[col]==lbl]["value"].sum() over the value column v
ColSum(col, lbl, v) ==
    LET rows == RowsWhere(col, lbl, 1)
    IN  SeqSum([k \in DOMAIN rows |-> v[rows[k]]])

\* line 108
Tier0Nodes == {lbl \in DOMAIN tiers : tiers[lbl] = 0}

\* line 109: df[df['source'].isin(tier0_nodes)]['value'].sum()
Tier0Sum(v) ==
    SeqSum([i \in DOMAIN source |-> IF source[i] \in Tier0Nodes THEN v[i] ELSE 0])

\* a faulty NodeVal: no fallback to the outbound sum
NodeValInboundOnly(lbl, v) == ColSum(target, lbl, v)

\* line 112: inbound sum `or` outbound sum (a zero inbound sum is falsy)
NodeVal(lbl, v) ==
    IF ColSum(target, lbl, v) # 0 THEN ColSum(target, lbl, v)
    ELSE ColSum(source, lbl, v)

\* round(a / rf) of line 114: round-half-to-even of a non-negative quotient
RoundHalfEven(a, rf) ==
    LET q == a \div rf
        r == a % rf
    IN  IF 2 * r < rf THEN q
        ELSE IF 2 * r > rf THEN q + 1
        ELSE IF q % 2 = 0 THEN q ELSE q + 1

\* lines 113-116.  The sums are numpy scalars: v/0 is nan for v = 0 and inf
\* otherwise, and formats as "nan%" or "inf%"
ValText(v, t0, mode, rf) ==
    IF mode = "Values"
    THEN [kind |-> "value", num |-> RoundHalfEven(v, rf) * rf, den |-> 1]
    ELSE IF t0 = 0
         THEN [kind |-> IF v = 0 THEN "nan" ELSE "inf", num |-> v, den |-> 0]
         ELSE [kind |-> "percent", num |-> v * 100, den |-> t0]

\* lines 108-155: aggregated values and node labels, then the figure
FormatLabels ==
    /\ pc = "labels"
    /\ \E v \in [DOMAIN source -> Values], mode \in {"Values", "Percentages"} :
        \E rf \in (IF mode = "Values" THEN RoundFactors ELSE {0}) :
          /\ value' = v
          /\ display_mode' = mode
          /\ round_factor' = rf
          /\ tier0_sum' = Tier0Sum(v)
          /\ val' = [i \in DOMAIN labels |-> NodeVal(labels[i], v)]
          /\ val_text' = [i \in DOMAIN labels |->
                            ValText(NodeVal(labels[i], v), Tier0Sum(v), mode, rf)]
    /\ pc' = "done"
    /\ outcome' = "fig"
    /\ UNCHANGED <<source, target, labels, tiers, roots, rootIdx, stack,
                   max_tier, x, y>>

\* the tier assigner: lines 71-87
TierNext ==
    \/ ReturnNone
    \/ BuildGraph
    \/ CallRoot
    \/ CallChild
    \/ RaiseRecursionError
    \/ Return
    \/ ComputeMaxTier

Next ==
    \/ TierNext
    \/ Layout
    \/ FormatLabels

Spec == Init /\ [][Next]_vars

\* the tier assigner alone, run to completion: create_sankey is one synchronous
\* call, so a step that can be taken is taken
TierSpec == Init /\ [][TierNext]_vars /\ WF_vars(TierNext)

\* ---- the graph of the edge list, for the properties ----
EdgeSet == {<<source[i], target[i]>> : i \in DOMAIN source}
NodeSet == Range(source) \cup Range(target)
RootSet == NodeSet \ Range(target)
Succ(S) == {e[2] : e \in {d \in EdgeSet : d[1] \in S}}

RECURSIVE WalkEnds(_, _)
\* the nodes that end a walk of exactly k edges starting in S
WalkEnds(S, k) == IF k = 0 THEN S ELSE Succ(WalkEnds(S, k - 1))

NodeCount == Cardinality(NodeSet)
ReachableFromRoot == UNION {WalkEnds(RootSet, k) : k \in 0..NodeCount}
OnCycle(n) == \E k \in 1..NodeCount : n \in WalkEnds({n}, k)
CyclicFromRoot == \E n \in ReachableFromRoot : OnCycle(n)
Acyclic == \A n \in NodeSet : ~OnCycle(n)

\* the largest number of edges of a path from a root to n (acyclic graphs)
LongestPath(n) ==
    CHOOSE k \in 0..NodeCount :
        /\ n \in WalkEnds(RootSet, k)
        /\ \A m \in (k + 1)..NodeCount : n \notin WalkEnds(RootSet, m)

\* lines 85-86 have finished without an exception
TieringDone ==
    \/ pc \in {"layout", "labels"}
    \/ pc = "done" /\ outcome \in {"fig", "TypeError"}

AllTiered == \A n \in DOMAIN tiers : tiers[n] # None

\* ---- C1 ----
\* C1 as stated: with no cycle reachable from a root, once tier assignment has
\* finished every edge (s,t) of the list has tier(t) > tier(s).
C1_EveryEdgeMonotone ==
    (TieringDone /\ ~CyclicFromRoot) =>
        \A i \in DOMAIN source :
            /\ tiers[source[i]] # None
            /\ tiers[target[i]] # None
            /\ tiers[target[i]] > tiers[source[i]]

\* C1 amended: with no cycle reachable from a root, once tier assignment has
\* finished every edge (s,t) whose source holds a tier (is reachable from a
\* root) has tier(t) > tier(s).
C1_TieredEdgeMonotone ==
    (TieringDone /\ ~CyclicFromRoot) =>
        \A i \in DOMAIN source :
            tiers[source[i]] # None =>
                /\ tiers[target[i]] # None
                /\ tiers[target[i]] > tiers[source[i]]

C1_Witness ==
    /\ TieringDone
    /\ ~CyclicFromRoot
    /\ \E i \in DOMAIN source : tiers[source[i]] = 0 /\ tiers[target[i]] = 2
    /\ \E i \in DOMAIN source : tiers[source[i]] = 1 /\ tiers[target[i]] = 2

\* ---- C2 ----
\* C2: on an acyclic edge list the final tier of every node is the largest
\* number of edges of a path from any root to it, whatever the row order.
C2_LongestPathTier ==
    (TieringDone /\ Acyclic) =>
        \A n \in NodeSet : tiers[n] = LongestPath(n)

C2_Witness ==
    /\ TieringDone
    /\ Acyclic
    /\ Cardinality(RootSet) = 2
    /\ \E i \in DOMAIN source : tiers[source[i]] = 0 /\ tiers[target[i]] = 2

\* ---- C3 ----
\* C3: after tier assignment the tier-0 nodes are exactly the nodes that are
\* never an edge target.
C3_RootInvariant ==
    TieringDone =>
        \A n \in NodeSet : (tiers[n] = 0) <=> (n \notin Range(target))

C3_Witness ==
    /\ TieringDone
    /\ Cardinality(RootSet) = 2
    /\ \E n \in NodeSet : n \in Range(target) /\ n \in Range(source) /\ tiers[n] = 1

\* ---- C4 ----
\* C4 as stated: an edge list with a cycle reachable from a root ends in the
\* "cyclic graph not supported" error outcome.
C4_CyclicRejected ==
    (CyclicFromRoot /\ pc = "done") => outcome = "cyclic graph not supported"

\* ---- C5 ----
\* C5: a non-empty edge list without a root ends in an error raised to the
\* caller; assign_tier is never called, every tier stays unset and no layout
\* and no label is produced.
C5_NoRootIsError ==
    (Len(source) > 0 /\ RootSet = {}) =>
        /\ stack = <<>>
        /\ \A n \in DOMAIN tiers : tiers[n] = None
        /\ x = <<>> /\ y = <<>> /\ val_text = <<>>
        /\ pc = "done" => outcome = "TypeError"

C5_Witness ==
    /\ Len(source) > 1
    /\ RootSet = {}
    /\ pc = "done"
    /\ outcome = "TypeError"

\* ---- C6 ----
\* C6 as stated: a node that is the target of exactly one edge has that
\* edge's value as aggregated value, also when the value is 0.
C6_SingleInboundValue ==
    outcome = "fig" =>
        \A i \in DOMAIN labels :
            LET rows == RowsWhere(target, labels[i], 1)
            IN  Len(rows) = 1 => val[i] = value[rows[1]]

\* ---- C7 ----
\* C7: in every tier with more than one node the y-values, in label order,
\* rise by one common step, (band height - 2 margins of 5%) / (count - 1),
\* so no two nodes of a tier share a y-value.
C7_VerticalSpacing ==
    y # <<>> =>
        \A tier \in 0..max_tier :
            LET indices == TierGroup(tier)
                count == Len(indices)
            IN  count > 1 =>
                  /\ \A k \in 1..(count - 1) :
                        LET a == y[indices[k]]
                            b == y[indices[k + 1]]
                        IN  /\ a[2] = b[2]
                            /\ b[1] > a[1]
                            \* b - a = (9/10) / ((max_tier+1) * (count-1))
                            /\ (b[1] - a[1]) * 10 * (max_tier + 1) * (count - 1)
                                 = 9 * a[2]
                  /\ \A k, l \in 1..count :
                        k # l => y[indices[k]][1] * y[indices[l]][2]
                                   # y[indices[l]][1] * y[indices[k]][2]

C7_Witness ==
    /\ y # <<>>
    /\ \E tier \in 0..max_tier :
          LET indices == TierGroup(tier)
          IN  Len(indices) = 3 /\ indices[2] > indices[1] + 1

\* ---- C8 ----
\* the direct children of the tier-0 nodes
Tier0Children == {target[i] : i \in {j \in DOMAIN source : source[j] \in Tier0Nodes}}

SetSum(S, f(_)) ==
    LET idx == SelectSeq([i \in DOMAIN labels |-> i], LAMBDA i : labels[i] \in S)
    IN  SeqSum([k \in DOMAIN idx |-> f(labels[idx[k]])])

ChildValSum == SetSum(Tier0Children, LAMBDA c : val[CHOOSE i \in DOMAIN labels : labels[i] = c])

\* value entering the children from nodes that are not in tier 0
ChildInboundFromOthers ==
    SeqSum([i \in DOMAIN source |->
              IF target[i] \in Tier0Children /\ source[i] \notin Tier0Nodes
              THEN value[i] ELSE 0])

\* outgoing sums of the children whose inbound sum is zero
ChildFallbackSum ==
    SetSum(Tier0Children,
           LAMBDA c : IF ColSum(target, c, value) = 0
                      THEN ColSum(source, c, value) ELSE 0)

SingleRootPercentages ==
    /\ outcome = "fig"
    /\ display_mode = "Percentages"
    /\ Acyclic
    /\ Cardinality(Tier0Nodes) = 1
    /\ tier0_sum > 0

\* C8 as stated: with a single root and a positive tier-0 total the
\* aggregated values of the root's direct children sum to the tier-0 total
\* (their percentages sum to 100).
C8_ChildrenSumToTotal ==
    SingleRootPercentages => ChildValSum = tier0_sum

\* C8 amended: the aggregated values of the root's direct children sum to
\* the tier-0 total plus the value entering them from non-root nodes plus the
\* outgoing sums of the children whose inbound sum is zero.
C8_ChildrenSumExact ==
    SingleRootPercentages =>
        ChildValSum = tier0_sum + ChildInboundFromOthers + ChildFallbackSum

C8_Witness ==
    /\ SingleRootPercentages
    /\ Cardinality(Tier0Children) = 2
    /\ ChildInboundFromOthers > 0
    /\ ChildFallbackSum > 0

\* ---- C9 ----
\* C9 as stated: in Percentages mode a zero tier-0 total ends in a formatting
\* error and no nan or inf label is produced.
C9_ZeroTotalIsError ==
    (display_mode = "Percentages" /\ tier0_sum = 0) =>
        /\ outcome = "formatting error"
        /\ \A i \in DOMAIN val_text : val_text[i].kind \notin {"nan", "inf"}

\* ---- C10 ----
TierNeverDecreases ==
    \A n \in DOMAIN tiers : tiers[n] # None => tiers'[n] >= tiers[n]

====
